---- MODULE Spec2Model ----
(***************************************************************************)
(* Model of the Intelligence Hub adapters (Terminal, LM Studio, MCP        *)
(* connector, Web Browse, Hub Monitor): one invocation of an adapter's     *)
(* execute() over a batch of items, together with the promise-wrapped      *)
(* external call of the item being processed and the events the external   *)
(* libraries (child_process, ssh2, ws, axios, puppeteer) deliver to it.    *)
(*                                                                         *)
(* Conventions:                                                            *)
(*  - an action is one run of a handler or of execute between two awaits;  *)
(*    the events of the awaited call are enabled only while execute        *)
(*    awaits, also after the promise settled (late events);                *)
(*  - getNodeParameter serves the same parameter bag for every item of the *)
(*    batch (node settings without per-item expressions); what differs     *)
(*    between items is what the outside world answers;                     *)
(*  - time is counted in seconds since the call started, up to one second  *)
(*    past the configured timeout; an armed timer fires before time passes *)
(*    its deadline;                                                        *)
(*  - strings that are trimmed are sequences of characters; timestamps and *)
(*    pass-through fields of library replies are left out of the records.  *)
(***************************************************************************)
EXTENDS Integers, Sequences, FiniteSets, TLC

\* ---------------------------------------------------------------- bounds
MaxItems == 2
MaxChunks == 2
MaxTimeout == 2
MaxMessages == 2

Timeouts == 1..MaxTimeout
MaxClock == MaxTimeout + 1

\* ------------------------------------------------------- the environment
Adapters == {"Terminal", "LLM", "MCP", "Browser", "Monitor"}

\* exit codes a completed command reports
ExitCodes == {0, 1}
\* code reported by 'close' after a failed spawn (negative errno)
SpawnFailCode == 0 - 2

\* data chunks a process writes: sequences of characters
Chunks == { <<" ">>, <<"x", " ", "y", "\n">> }

\* message texts of the failures the libraries report
SpawnErrors == {"spawn sh ENOENT"}
SSHErrors == {"connect ECONNREFUSED"}
SSHExecErrors == {"Channel open failure"}
WSErrors == {"connect ECONNREFUSED"}
HttpErrors == {"connect ECONNREFUSED"}
PageErrors == {"Target closed"}
LaunchErrors == {"Failed to launch the browser process"}

\* ------------------------------------------------------------ primitives
NumStr(n) ==
  CASE n = 0 -> "0" [] n = 1 -> "1" [] n = 2 -> "2" [] n = 3 -> "3"
    [] n = 4 -> "4" [] OTHER -> "5"

IsSpace(ch) == ch \in {" ", "\n", "\t", "\r"}

RECURSIVE TrimStart(_)
TrimStart(s) ==
  IF s = <<>> THEN s
  ELSE IF IsSpace(Head(s)) THEN TrimStart(Tail(s)) ELSE s

RECURSIVE TrimEnd(_)
TrimEnd(s) ==
  IF s = <<>> THEN s
  ELSE IF IsSpace(s[Len(s)]) THEN TrimEnd(SubSeq(s, 1, Len(s) - 1)) ELSE s

\* String.prototype.trim
Trim(s) == TrimEnd(TrimStart(s))

NoCode == 0 - 1
NoValue == [none |-> TRUE]
NoError == [cls |-> "none", msg |-> ""]

NodeOperationError(msg) == [cls |-> "NodeOperationError", msg |-> msg]
SyntaxError(msg) == [cls |-> "SyntaxError", msg |-> msg]
TypeError(msg) == [cls |-> "TypeError", msg |-> msg]
LibraryError(msg) == [cls |-> "Error", msg |-> msg]

\* ------------------------------------------------------------------ state
VARIABLES
  adapter,         \* which node's execute() runs
  continueOnFail,  \* this.continueOnFail()
  nItems,          \* items.length
  i,               \* loop index of execute (0-based)
  pc,              \* position of execute
  returnData,      \* the output collection being built
  thrown,          \* the error execute threw (NoError if none)
  params,          \* the node parameters getNodeParameter returns
  call,            \* the external call of the current item
  now,             \* seconds elapsed since the current call was started
  chunksLeft,      \* data chunks the environment may still deliver
  outcomes,        \* what each item's operation delivered to execute
  started,         \* items whose operation has been started
  br               \* the Browser adapter's browser and page handles

vars == <<adapter, continueOnFail, nItems, i, pc, returnData, thrown, params,
          call, now, chunksLeft, outcomes, started, br>>

\* what an event of the external call leaves alone
execVars == <<adapter, continueOnFail, nItems, i, pc, returnData, thrown,
              params, outcomes, started, br>>

\* --------------------------------------------------------- promise helpers
\* a call record: the promise, its timer and what the connection has seen
NewCall(kind) ==
  [ kind |-> kind,
    state |-> "pending",        \* pending / resolved / rejected
    value |-> NoValue,          \* the result record or the error
    settledBy |-> "none",       \* the event that settled the promise
    external |-> TRUE,          \* an external operation was started
    timer |-> "none",           \* none / armed / cleared / fired
    timeout |-> 0,
    stdout |-> <<>>, stderr |-> <<>>,
    outChunks |-> <<>>, errChunks |-> <<>>,
    spawnFailed |-> FALSE,
    closeCode |-> NoCode,       \* exit code of the 'close' event
    closed |-> FALSE,           \* the 'close' event was delivered
    errored |-> FALSE,          \* the 'error' event was delivered
    ready |-> FALSE,            \* ssh 'ready' / ws 'open' was delivered
    execs |-> 0,                \* conn.exec calls
    execAfterTimeout |-> FALSE, \* conn.exec was called after the timer fired
    execDone |-> FALSE,         \* the exec callback ran
    streamOpen |-> FALSE,
    ends |-> 0,                 \* conn.end() / ws.close() calls
    sent |-> <<>>,              \* messages written to the socket
    received |-> 0,             \* messages delivered by the socket
    firstMessage |-> "",        \* the text of the first of them
    responseReceived |-> FALSE,
    settleCalls |-> 0,          \* resolve()/reject() invocations
    lateTimer |-> FALSE,        \* the timer callback ran after settlement
    handlerThrew |-> FALSE,     \* an event handler threw (uncaught)
    step |-> 0,                 \* position in a sequence of probes
    acc |-> <<>>,               \* results collected by the probes so far
    samples |-> <<>>,           \* memory and CPU usage sampled (tenths)
    probed |-> {},              \* URLs a network request was made to
    windows |-> FALSE,          \* process.platform === 'win32'
    page |-> 0 ]                \* the page handle the operation ran on

IdleCall == [NewCall("none") EXCEPT !.state = "idle", !.external = FALSE]

\* resolve(v): only the first resolve() or reject() of a promise has an effect
ResolveOverwrites(c, v, ev) ==
  [c EXCEPT !.state = "resolved", !.value = v, !.settledBy = ev,
            !.settleCalls = @ + 1]

Resolve(c, v, ev) ==
  IF c.state = "pending"
  THEN [c EXCEPT !.state = "resolved", !.value = v, !.settledBy = ev,
                 !.settleCalls = @ + 1]
  ELSE [c EXCEPT !.settleCalls = @ + 1]

Reject(c, e, ev) ==
  IF c.state = "pending"
  THEN [c EXCEPT !.state = "rejected", !.value = e, !.settledBy = ev,
                 !.settleCalls = @ + 1]
  ELSE [c EXCEPT !.settleCalls = @ + 1]

\* clearTimeout(timeoutId)
ClearTimeout(c) == [c EXCEPT !.timer = IF @ = "armed" THEN "cleared" ELSE @]

\* ------------------------------------------------ Terminal: local command
\* the promise executor: spawn('sh', ['-c', command]) and handler registration
executeLocalCommand(p) == NewCall("local")

LocalOnStdout(c, data) ==
  [c EXCEPT !.stdout = @ \o data, !.outChunks = Append(@, data)]

LocalOnStderr(c, data) ==
  [c EXCEPT !.stderr = @ \o data, !.errChunks = Append(@, data)]

LocalOnCloseRejectsNonZero(c, code) ==
  IF code = 0
  THEN Resolve([c EXCEPT !.closed = TRUE, !.closeCode = code],
               [exitCode |-> code, stdout |-> Trim(c.stdout),
                stderr |-> Trim(c.stderr), success |-> TRUE], "close")
  ELSE Reject([c EXCEPT !.closed = TRUE, !.closeCode = code],
              NodeOperationError("Command execution failed: exit code "
                                 \o NumStr(code)), "close")

LocalOnCloseNoTrim(c, code) ==
  Resolve([c EXCEPT !.closed = TRUE, !.closeCode = code],
          [exitCode |-> code, stdout |-> TrimStart(c.stdout),
           stderr |-> Trim(c.stderr), success |-> (code = 0)], "close")

LocalOnClose(c, code) ==
  Resolve([c EXCEPT !.closed = TRUE, !.closeCode = code],
          [exitCode |-> code, stdout |-> Trim(c.stdout),
           stderr |-> Trim(c.stderr), success |-> (code = 0)], "close")

LocalOnError(c, msg) ==
  Reject([c EXCEPT !.errored = TRUE, !.spawnFailed = TRUE],
         NodeOperationError("Command execution failed: " \o msg), "error")

\* ------------------------------------------------- Terminal: SSH command
SSHTimeoutError(timeout) ==
  NodeOperationError("SSH connection timeout after " \o NumStr(timeout)
                     \o " seconds")

\* the promise executor: new Client(), setTimeout, handlers, conn.connect
executeRemoteCommand(p) ==
  [NewCall("ssh") EXCEPT !.timer = "armed", !.timeout = p.timeout]

\* the setTimeout callback
SSHOnTimeout(c) ==
  Reject([c EXCEPT !.timer = "fired", !.ends = @ + 1,
                   !.lateTimer = (c.state # "pending")],
         SSHTimeoutError(c.timeout), "timeout")

\* conn.on('ready'): clearTimeout, conn.exec(command, callback)
SSHOnReady(c) ==
  [ClearTimeout(c) EXCEPT !.ready = TRUE, !.execs = @ + 1,
                          !.execAfterTimeout = (c.timer = "fired")]

\* the conn.exec callback, err set
SSHOnExecError(c, msg) ==
  Reject([c EXCEPT !.execDone = TRUE, !.ends = @ + 1],
         NodeOperationError("SSH exec failed: " \o msg), "execError")

\* the conn.exec callback, stream delivered: stream handlers are registered
SSHOnExecStream(c) == [c EXCEPT !.execDone = TRUE, !.streamOpen = TRUE]

SSHOnStreamData(c, data) ==
  [c EXCEPT !.stdout = @ \o data, !.outChunks = Append(@, data)]

SSHOnStreamStderr(c, data) ==
  [c EXCEPT !.stderr = @ \o data, !.errChunks = Append(@, data)]

SSHOnStreamClose(c, code) ==
  Resolve([c EXCEPT !.streamOpen = FALSE, !.closed = TRUE,
                    !.closeCode = code, !.ends = @ + 1],
          [exitCode |-> code, stdout |-> Trim(c.stdout),
           stderr |-> Trim(c.stderr), success |-> (code = 0)], "close")

\* conn.on('error')
SSHOnErrorKeepsTimer(c, msg) ==
  Reject([c EXCEPT !.errored = TRUE],
         NodeOperationError("SSH connection failed: " \o msg), "error")

SSHOnError(c, msg) ==
  Reject([ClearTimeout(c) EXCEPT !.errored = TRUE],
         NodeOperationError("SSH connection failed: " \o msg), "error")

\* --------------------------------------------------------- MCP connector
\* texts of the 'toolArguments' and 'customMessage' parameters
JsonTexts == { "{}", "{", "{\"method\":\"ping\"}" }
\* texts a server sends back
ResponseTexts == { "{\"jsonrpc\":\"2.0\",\"id\":\"id1\",\"result\":{}}",
                   "{\"jsonrpc\":\"2.0\",\"id\":\"id2\",\"result\":{}}",
                   "not json" }
\* values of Math.random().toString(36).substring(7)
Ids == {"id1", "id2"}

EmptyObject == <<>>

\* JSON.parse on the texts above
JSONParse(text) ==
  CASE text = "{}" -> [ok |-> TRUE, value |-> EmptyObject]
    [] text = "{\"method\":\"ping\"}" ->
         [ok |-> TRUE, value |-> [method |-> "ping"]]
    [] text = "{\"jsonrpc\":\"2.0\",\"id\":\"id1\",\"result\":{}}" ->
         [ok |-> TRUE,
          value |-> [jsonrpc |-> "2.0", id |-> "id1", result |-> EmptyObject]]
    [] text = "{\"jsonrpc\":\"2.0\",\"id\":\"id2\",\"result\":{}}" ->
         [ok |-> TRUE,
          value |-> [jsonrpc |-> "2.0", id |-> "id2", result |-> EmptyObject]]
    [] text = "null" -> [ok |-> TRUE, value |-> [null |-> TRUE]]
    [] text = "{\"lmStudio\": \"http://localhost:1234\", \"mcpServer\": \"ws://localhost:8080\"}" ->
         [ok |-> TRUE, value |-> [lmStudio |-> "http://localhost:1234",
                                  mcpServer |-> "ws://localhost:8080"]]
    [] text = "{\"lmStudio\": \"http://localhost:1234\", \"api\": \"http://localhost:3000\"}" ->
         [ok |-> TRUE, value |-> [lmStudio |-> "http://localhost:1234",
                                  api |-> "http://localhost:3000"]]
    [] text = "{" ->
         [ok |-> FALSE, error |-> SyntaxError("Unexpected end of JSON input")]
    [] OTHER ->
         [ok |-> FALSE, error |-> SyntaxError("Unexpected token in JSON")]

MCPOperations == {"initialize", "listTools", "callTool", "listResources",
                  "readResource", "sendMessage"}

baseMessageNoVersion(id) ==
  [id |-> id, method |-> "", params |-> EmptyObject]

baseMessage(id) ==
  [jsonrpc |-> "2.0", id |-> id, method |-> "", params |-> EmptyObject]

\* buildMCPMessage: [ok, msg] when a message is returned, [ok, error] when it
\* throws
buildMCPMessage(p, id) ==
  CASE p.operation = "initialize" ->
         [ok |-> TRUE,
          msg |-> [baseMessage(id) EXCEPT
                     !.method = "initialize",
                     !.params = [protocolVersion |-> "2024-11-05",
                                 capabilities |-> [tools |-> EmptyObject,
                                                   resources |-> EmptyObject],
                                 clientInfo |-> [name |-> "n8n-intelligence-hub",
                                                 version |-> "1.0.0"]]]]
    [] p.operation = "listTools" ->
         [ok |-> TRUE, msg |-> [baseMessage(id) EXCEPT !.method = "tools/list"]]
    [] p.operation = "callTool" ->
         IF JSONParse(p.toolArguments).ok
         THEN [ok |-> TRUE,
               msg |-> [baseMessage(id) EXCEPT
                          !.method = "tools/call",
                          !.params = [name |-> p.toolName,
                                      arguments |-> JSONParse(p.toolArguments).value]]]
         ELSE [ok |-> FALSE, error |-> JSONParse(p.toolArguments).error]
    [] p.operation = "listResources" ->
         [ok |-> TRUE,
          msg |-> [baseMessage(id) EXCEPT !.method = "resources/list"]]
    [] p.operation = "readResource" ->
         [ok |-> TRUE,
          msg |-> [baseMessage(id) EXCEPT !.method = "resources/read",
                                          !.params = [uri |-> p.resourceUri]]]
    [] p.operation = "sendMessage" ->
         IF JSONParse(p.customMessage).ok
         THEN [ok |-> TRUE, msg |-> JSONParse(p.customMessage).value]
         ELSE [ok |-> FALSE, error |-> JSONParse(p.customMessage).error]
    [] OTHER ->
         [ok |-> FALSE,
          error |-> NodeOperationError("Unknown operation: " \o p.operation)]

WSTimeoutError(timeout) ==
  NodeOperationError("WebSocket operation timeout after " \o NumStr(timeout)
                     \o " seconds")

WSClosedError == NodeOperationError("WebSocket connection closed unexpectedly")

\* the promise executor: new WebSocket(serverUrl), setTimeout, handlers
executeWebSocketOperation(p) ==
  [NewCall("ws") EXCEPT !.timer = "armed", !.timeout = p.timeout]

\* the setTimeout callback
WSOnTimeoutNoReject(c) ==
  [c EXCEPT !.timer = "fired", !.lateTimer = (c.state # "pending"),
            !.ends = IF c.responseReceived THEN @ ELSE @ + 1]

WSOnTimeout(c) ==
  IF ~c.responseReceived
  THEN Reject([c EXCEPT !.timer = "fired", !.ends = @ + 1,
                        !.lateTimer = (c.state # "pending")],
              WSTimeoutError(c.timeout), "timeout")
  ELSE [c EXCEPT !.timer = "fired", !.lateTimer = (c.state # "pending")]

\* ws.on('open')
WSOnOpen(c, p, id) ==
  IF buildMCPMessage(p, id).ok
  THEN [c EXCEPT !.ready = TRUE,
                 !.sent = Append(@, buildMCPMessage(p, id).msg)]
  ELSE Reject([ClearTimeout(c) EXCEPT !.ready = TRUE, !.ends = @ + 1],
              NodeOperationError("Failed to send message: "
                                 \o buildMCPMessage(p, id).error.msg),
              "sendFailure")

\* the id of the request the 'open' handler sent ("" if it has none)
SentId(c) ==
  IF c.sent # <<>> /\ "id" \in DOMAIN c.sent[1] THEN c.sent[1].id ELSE ""

\* ws.on('message')
WSOnMessageCorrelates(c, data) ==
  IF JSONParse(data).ok /\ JSONParse(data).value.id # SentId(c)
  THEN [c EXCEPT !.received = @ + 1, !.firstMessage = IF c.received = 0 THEN data ELSE @]
  ELSE IF JSONParse(data).ok
  THEN Resolve([ClearTimeout(c) EXCEPT !.responseReceived = TRUE,
                                       !.received = @ + 1, !.ends = @ + 1,
                                       !.firstMessage = IF c.received = 0 THEN data ELSE @],
               [success |-> TRUE, response |-> JSONParse(data).value],
               "message")
  ELSE Reject([ClearTimeout(c) EXCEPT !.responseReceived = TRUE,
                                      !.received = @ + 1, !.ends = @ + 1,
                                      !.firstMessage = IF c.received = 0 THEN data ELSE @],
              NodeOperationError("Failed to parse response: "
                                 \o JSONParse(data).error.msg),
              "parseFailure")

WSOnMessage(c, data) ==
  IF JSONParse(data).ok
  THEN Resolve([ClearTimeout(c) EXCEPT !.responseReceived = TRUE,
                                       !.received = @ + 1, !.ends = @ + 1,
                                       !.firstMessage = IF c.received = 0 THEN data ELSE @],
               [success |-> TRUE, response |-> JSONParse(data).value],
               "message")
  ELSE Reject([ClearTimeout(c) EXCEPT !.responseReceived = TRUE,
                                      !.received = @ + 1, !.ends = @ + 1,
                                      !.firstMessage = IF c.received = 0 THEN data ELSE @],
              NodeOperationError("Failed to parse response: "
                                 \o JSONParse(data).error.msg),
              "parseFailure")

\* ws.on('error')
WSOnError(c, msg) ==
  Reject([ClearTimeout(c) EXCEPT !.responseReceived = TRUE, !.errored = TRUE],
         NodeOperationError("WebSocket error: " \o msg), "error")

\* ws.on('close')
WSOnCloseSilent(c) == [c EXCEPT !.closed = TRUE]

WSOnClose(c) ==
  IF ~c.responseReceived
  THEN Reject([ClearTimeout(c) EXCEPT !.closed = TRUE], WSClosedError, "close")
  ELSE [c EXCEPT !.closed = TRUE]

\* executeHttpOperation: buildMCPMessage runs outside the try block, then the
\* placeholder record is returned; nothing is sent
executeHttpOperationPosts(p, id) ==
  IF buildMCPMessage(p, id).ok
  THEN [NewCall("mcpHttp") EXCEPT !.sent = <<buildMCPMessage(p, id).msg>>]
  ELSE Reject([NewCall("mcpHttp") EXCEPT !.external = FALSE],
              buildMCPMessage(p, id).error, "throw")

executeHttpOperation(p, id) ==
  IF buildMCPMessage(p, id).ok
  THEN Resolve([NewCall("mcpHttp") EXCEPT !.external = FALSE],
               [success |-> TRUE,
                response |-> [message |-> "HTTP MCP not fully implemented yet"]],
               "return")
  ELSE Reject([NewCall("mcpHttp") EXCEPT !.external = FALSE],
              buildMCPMessage(p, id).error, "throw")

\* -------------------------------------------------------- LM Studio agent
LLMOperations == {"chat", "completion", "listModels"}

\* what axios delivers: a well-formed reply, a reply of another shape, or a
\* failure
HttpReplies == {"ok", "malformed"} \cup HttpErrors

LLMFailurePrefix(op) ==
  CASE op = "chat" -> "LM Studio chat completion failed: "
    [] op = "completion" -> "LM Studio text completion failed: "
    [] OTHER -> "LM Studio list models failed: "

\* executeChatCompletion / executeTextCompletion / executeListModels up to
\* the await on axios
executeLLMOperation(p) == NewCall("llm")

\* the rest of the three functions: the return and the catch block
LLMOnReply(c, p, reply) ==
  IF reply = "ok"
  THEN Resolve(c, IF p.operation = "listModels"
                  THEN [success |-> TRUE, models |-> <<"model-a">>, count |-> 1]
                  ELSE [success |-> TRUE, response |-> "text",
                        model |-> "model-a"], "reply")
  ELSE Reject(c, NodeOperationError(
                   LLMFailurePrefix(p.operation) \o
                   (IF reply = "malformed"
                    THEN "Cannot read properties of undefined"
                    ELSE reply)), "failure")

\* -------------------------------------------------------- Web Browse agent
BrowserOperations == {"navigate", "screenshot", "getText", "click",
                      "fillForm", "waitForElement", "executeScript"}

PageFailurePrefix(op) ==
  CASE op = "navigate" -> "Navigation failed: "
    [] op = "screenshot" -> "Screenshot failed: "
    [] op = "getText" -> "Get text failed: "
    [] op = "click" -> "Click failed: "
    [] op = "fillForm" -> "Fill form failed: "
    [] op = "waitForElement" -> "Wait for element failed: "
    [] OTHER -> "Script execution failed: "

\* the action field of the records of click, fillForm and waitForElement
PageAction(op) ==
  CASE op = "click" -> "clicked"
    [] op = "fillForm" -> "filled"
    [] op = "waitForElement" -> "element_found"

\* the record a page operation returns; navigate, screenshot, getText and
\* executeScript have no action field
PageResult(op) ==
  IF op \in {"click", "fillForm", "waitForElement"}
  THEN [success |-> TRUE, action |-> PageAction(op)]
  ELSE [success |-> TRUE]

\* the number of calls on the page a page operation awaits one after the other
PageAwaits(op) ==
  CASE op \in {"navigate", "getText", "click"} -> 2
    [] op = "fillForm" -> 6
    [] OTHER -> 1

\* executeNavigate ... executeScript up to the first await on the page
executePageOperation(p, page) == [NewCall("page") EXCEPT !.page = page]

\* the continuation after an awaited call on the page settled: the catch
\* block, the next call on the page, or the return
PageOnSettle(c, p, failure) ==
  IF failure # ""
  THEN Reject(c, NodeOperationError(PageFailurePrefix(p.operation)
                                    \o failure), "failure")
  ELSE IF c.step + 1 < PageAwaits(p.operation)
  THEN [c EXCEPT !.step = @ + 1]
  ELSE Resolve([c EXCEPT !.step = @ + 1], PageResult(p.operation), "done")

\* ------------------------------------------------------------- Hub Monitor
MonitorOperations == {"systemHealth", "serviceStatus", "networkScan",
                      "processMonitor", "performanceMetrics"}

\* usage percentages, in tenths of a percent
UsageSamples == {700, 701, 900, 901, 950}

\* what one run of the three checks meets: whether the disk check's process
\* could be spawned, the memory usage and the CPU usage; each usage is varied
\* with the other at 70, both are high together, and the two thresholds are
\* met from either side in one run
HealthReadings ==
  {<<TRUE, m, 700>> : m \in UsageSamples}
    \cup {<<TRUE, 700, c>> : c \in UsageSamples}
    \cup {<<FALSE, 700, 700>>, <<TRUE, 701, 900>>, <<TRUE, 901, 901>>,
          <<TRUE, 950, 950>>}

\* Math.round of a value given in tenths
Round(tenths) == (tenths + 5) \div 10

\* usage > 90 ? 'critical' : usage > 70 ? 'warning' : 'ok'
UsageStatusInclusive(tenths) ==
  IF tenths >= 900 THEN "critical"
  ELSE IF tenths >= 700 THEN "warning" ELSE "ok"

UsageStatus(tenths) ==
  IF tenths > 900 THEN "critical" ELSE IF tenths > 700 THEN "warning" ELSE "ok"

\* checkDiskSpace: the placeholder record on 'close', the error record on
\* 'error'
checkDiskSpace(spawned) ==
  IF spawned
  THEN [total |-> "100GB", free |-> "50GB", usage |-> 50, status |-> "ok"]
  ELSE [total |-> "unknown", free |-> "unknown", usage |-> 0,
        status |-> "error"]

\* checkMemoryUsage for heapUsed / heapTotal * 100 = tenths / 10
checkMemoryUsage(tenths) ==
  [usage |-> Round(tenths), status |-> UsageStatus(tenths)]

\* checkCpuUsage for Math.random() * 100 = tenths / 10
checkCpuUsage(tenths) ==
  [usage |-> Round(tenths), status |-> UsageStatus(tenths)]

\* executeSystemHealth after the three checks
SystemHealth(disk, memory, cpu) ==
  [ status |-> IF cpu.usage > 90 THEN "critical"
               ELSE IF disk.usage > 90 \/ memory.usage > 90 THEN "warning"
               ELSE "healthy",
    overall |-> ~(disk.usage > 90 \/ memory.usage > 90 \/ cpu.usage > 90),
    checks |-> [diskSpace |-> disk, memory |-> memory, cpu |-> cpu] ]

\* texts of the 'services' parameter
ServicesTexts ==
  { "{}", "{", "null",
    "{\"lmStudio\": \"http://localhost:1234\", \"mcpServer\": \"ws://localhost:8080\"}",
    "{\"lmStudio\": \"http://localhost:1234\", \"api\": \"http://localhost:3000\"}" }

\* Object.entries(services) in insertion order
ServiceEntries(text) ==
  IF text = "{\"lmStudio\": \"http://localhost:1234\", \"mcpServer\": \"ws://localhost:8080\"}"
  THEN << <<"lmStudio", "http://localhost:1234">>,
          <<"mcpServer", "ws://localhost:8080">> >>
  ELSE IF text = "{\"lmStudio\": \"http://localhost:1234\", \"api\": \"http://localhost:3000\"}"
  THEN << <<"lmStudio", "http://localhost:1234">>,
          <<"api", "http://localhost:3000">> >>
  ELSE << >>

\* url.startsWith('ws://') || url.startsWith('wss://')
IsWebSocketUrl(url) == url \in {"ws://localhost:8080"}

\* checkWebSocketService: resolves 'healthy' without opening a connection
checkWebSocketService(url) ==
  [status |-> "healthy", type |-> "websocket", url |-> url]

\* HTTP status codes a probed service answers with
StatusCodes == {200, 500}

\* the record of an HTTP probe: a status code, or 0 for a failed request
HttpProbeRecord(url, statusCode, failure) ==
  IF failure = ""
  THEN [status |-> IF statusCode < 400 THEN "healthy" ELSE "unhealthy",
        statusCode |-> statusCode, url |-> url]
  ELSE [status |-> "error", error |-> failure, url |-> url]

\* the loop of executeServiceStatus from entry k on, up to the next await on
\* axios: WebSocket services are answered without an await on the network
RECURSIVE ServiceLoop(_, _)
ServiceLoop(c, entries) ==
  IF c.step >= Len(entries)
  THEN Resolve(c, [services |-> c.acc], "return")
  ELSE IF IsWebSocketUrl(entries[c.step + 1][2])
       THEN ServiceLoop([c EXCEPT !.step = @ + 1,
                                  !.acc = Append(@, [name |-> entries[c.step + 1][1],
                                                     result |-> checkWebSocketService(entries[c.step + 1][2])])],
                        entries)
       ELSE [c EXCEPT !.probed = @ \cup {entries[c.step + 1][2]},
                      !.external = TRUE]

\* executeServiceStatus up to its first await
executeServiceStatus(p) ==
  IF ~JSONParse(p.services).ok
  THEN Reject([NewCall("services") EXCEPT !.external = FALSE],
              JSONParse(p.services).error, "throw")
  ELSE IF p.services = "null"
  THEN Reject([NewCall("services") EXCEPT !.external = FALSE],
              TypeError("Cannot convert undefined or null to object"),
              "throw")
  ELSE ServiceLoop([NewCall("services") EXCEPT !.external = FALSE],
                   ServiceEntries(p.services))

\* the continuation after axios.get settled for entry c.step
ServiceOnProbeThrows(c, p, statusCode, failure) ==
  IF failure # ""
  THEN Reject(c, LibraryError(failure), "throw")
  ELSE ServiceLoop(
         [c EXCEPT !.step = @ + 1,
                   !.acc = Append(@, [name |-> ServiceEntries(p.services)[c.step + 1][1],
                                      result |-> HttpProbeRecord(
                                        ServiceEntries(p.services)[c.step + 1][2],
                                        statusCode, failure)])],
         ServiceEntries(p.services))

ServiceOnProbe(c, p, statusCode, failure) ==
  ServiceLoop(
    [c EXCEPT !.step = @ + 1,
              !.acc = Append(@, [name |-> ServiceEntries(p.services)[c.step + 1][1],
                                 result |-> HttpProbeRecord(
                                   ServiceEntries(p.services)[c.step + 1][2],
                                   statusCode, failure)])],
    ServiceEntries(p.services))

\* ports.split(',').map(p => parseInt(p.trim()))
ParsePorts(text) == IF text = "1234,5678" THEN <<1234, 5678>> ELSE <<0>>

guessService(port) ==
  CASE port = 22 -> "SSH" [] port = 80 -> "HTTP" [] port = 443 -> "HTTPS"
    [] port = 1234 -> "LM Studio" [] port = 8080 -> "MCP Server"
    [] port = 3000 -> "Development Server" [] port = 5678 -> "n8n"
    [] OTHER -> "Unknown"

\* executeNetworkScan up to its first await on axios
executeNetworkScan(p) == NewCall("scan")

\* the continuation after axios.get settled for port c.step
ScanOnProbe(c, p, open) ==
  IF c.step + 1 >= Len(ParsePorts(p.ports))
  THEN Resolve([c EXCEPT !.step = @ + 1],
               [range |-> p.networkRange, ports |-> ParsePorts(p.ports),
                discovered |->
                  IF open
                  THEN Append(c.acc, [host |-> "localhost",
                                      port |-> ParsePorts(p.ports)[c.step + 1],
                                      status |-> "open",
                                      service |-> guessService(ParsePorts(p.ports)[c.step + 1])])
                  ELSE c.acc], "return")
  ELSE [c EXCEPT !.step = @ + 1,
                 !.acc = IF open
                         THEN Append(@, [host |-> "localhost",
                                         port |-> ParsePorts(p.ports)[c.step + 1],
                                         status |-> "open",
                                         service |-> guessService(ParsePorts(p.ports)[c.step + 1])])
                         ELSE @]

\* values of the 'processPattern' parameter
ProcessPatterns == {"", "node", "^N", "("}

\* new RegExp(pattern, 'i') throws for these
RegexValid(pattern) == pattern # "("

\* the characters of a pattern
PatternChars(pattern) ==
  CASE pattern = "node" -> <<"n", "o", "d", "e">>
    [] pattern = "^N" -> <<"^", "N">>
    [] pattern = "(" -> <<"(">>
    [] OTHER -> << >>

\* case folding of the 'i' flag
Lower(ch) ==
  CASE ch = "A" -> "a" [] ch = "B" -> "b" [] ch = "C" -> "c" [] ch = "D" -> "d"
    [] ch = "E" -> "e" [] ch = "F" -> "f" [] ch = "G" -> "g" [] ch = "H" -> "h"
    [] ch = "I" -> "i" [] ch = "J" -> "j" [] ch = "K" -> "k" [] ch = "L" -> "l"
    [] ch = "M" -> "m" [] ch = "N" -> "n" [] ch = "O" -> "o" [] ch = "P" -> "p"
    [] ch = "Q" -> "q" [] ch = "R" -> "r" [] ch = "S" -> "s" [] ch = "T" -> "t"
    [] ch = "U" -> "u" [] ch = "V" -> "v" [] ch = "W" -> "w" [] ch = "X" -> "x"
    [] ch = "Y" -> "y" [] ch = "Z" -> "z" [] OTHER -> ch

\* the literal lit occurs in s at offset k, letters compared without case
LiteralAt(lit, s, k) ==
  /\ k + Len(lit) <= Len(s)
  /\ \A j \in 1..Len(lit) : Lower(s[k + j]) = Lower(lit[j])

\* the scan of an unanchored literal from offset k on
RECURSIVE SearchFrom(_, _, _)
SearchFrom(lit, s, k) ==
  IF k + Len(lit) > Len(s) THEN FALSE
  ELSE IF LiteralAt(lit, s, k) THEN TRUE
  ELSE SearchFrom(lit, s, k + 1)

\* regex.test(s) for the patterns above: a literal, anchored by a leading ^
RegexTest(pattern, s) ==
  IF PatternChars(pattern) # << >> /\ Head(PatternChars(pattern)) = "^"
  THEN LiteralAt(Tail(PatternChars(pattern)), s, 0)
  ELSE SearchFrom(PatternChars(pattern), s, 0)

\* the position of the first separator character in s, 0 if there is none
FirstSeparator(s, seps) ==
  IF \E k \in 1..Len(s) : s[k] \in seps
  THEN CHOOSE k \in 1..Len(s) :
         s[k] \in seps /\ \A m \in 1..(k - 1) : s[m] \notin seps
  ELSE 0

\* String.prototype.split on a separator character: the pieces between
\* consecutive separators, empty pieces included
RECURSIVE Split(_, _)
Split(s, seps) ==
  IF FirstSeparator(s, seps) = 0 THEN <<s>>
  ELSE <<SubSeq(s, 1, FirstSeparator(s, seps) - 1)>>
         \o Split(SubSeq(s, FirstSeparator(s, seps) + 1, Len(s)), seps)

NonEmpty(piece) == piece # << >>

\* split(/\s+/) of a trimmed, non-empty line
SplitWhitespace(s) == SelectSeq(Split(s, {" ", "\n", "\t", "\r"}), NonEmpty)

\* parts.join(' ')
RECURSIVE Join(_)
Join(parts) ==
  IF parts = << >> THEN << >>
  ELSE IF Len(parts) = 1 THEN parts[1]
  ELSE parts[1] \o <<" ">> \o Join(Tail(parts))

NotQuote(ch) == ch # "\""

\* replace(/"/g, '')
RemoveQuotes(s) == SelectSeq(s, NotQuote)

\* the name and pid parseProcessList reads from one line
ParseLine(line, isWindows) ==
  IF isWindows
  THEN LET parts == Split(line, {","})
       IN IF Len(parts) > 1
          THEN [name |-> RemoveQuotes(parts[1]), pid |-> RemoveQuotes(parts[2])]
          ELSE [name |-> << >>, pid |-> << >>]
  ELSE LET parts == SplitWhitespace(Trim(line))
       IN IF Len(parts) > 10
          THEN [name |-> Join(SubSeq(parts, 11, Len(parts))), pid |-> parts[2]]
          ELSE [name |-> << >>, pid |-> << >>]

\* the loop of parseProcessList over the lines
RECURSIVE ParseLines(_, _, _)
ParseLines(lines, pattern, isWindows) ==
  IF lines = << >> THEN << >>
  ELSE IF Trim(Head(lines)) = << >>
  THEN ParseLines(Tail(lines), pattern, isWindows)
  ELSE LET entry == ParseLine(Head(lines), isWindows)
       IN IF /\ entry.name # << >>
             /\ (pattern = "" \/ RegexTest(pattern, entry.name))
          THEN <<entry>> \o ParseLines(Tail(lines), pattern, isWindows)
          ELSE ParseLines(Tail(lines), pattern, isWindows)

\* parseProcessList for a pattern new RegExp accepts
parseProcessListNoFilter(output, pattern, isWindows) ==
  ParseLines(Split(output, {"\n"}), "", isWindows)

parseProcessList(output, pattern, isWindows) ==
  ParseLines(Split(output, {"\n"}), pattern, isWindows)

\* a line of ps aux: ten columns, then the command
PsLine(pid, cmd) ==
  <<"r", " ">> \o pid
    \o <<" ", "0", " ", "0", " ", "0", " ", "0", " ", "?", " ", "S", " ",
         "0", " ", "0", " ">>
    \o cmd \o <<"\n">>

\* a line of tasklist /fo csv: the quoted name and pid columns and one more
CsvLine(name, pid) ==
  <<"\"">> \o name \o <<"\"", ",", "\"">> \o pid
    \o <<"\"", ",", "\"", "C", "\"", "\r", "\n">>

\* chunks the listing command writes on each platform
ListingChunks(isWindows) ==
  IF isWindows
  THEN { CsvLine(<<"I", "m", "a", "g", "e", " ", "N", "a", "m", "e">>,
                 <<"P", "I", "D">>),
         CsvLine(<<"n", "o", "d", "e", ".", "e", "x", "e">>, <<"7">>),
         CsvLine(<<"c", "m", "d", ".", "e", "x", "e">>, <<"9">>),
         <<"n", "o", "d", "e", "\r", "\n">>,
         <<"\r", "\n">> }
  ELSE { PsLine(<<"P", "I", "D">>, <<"C", "O", "M", "M", "A", "N", "D">>),
         PsLine(<<"7">>, <<"n", "o", "d", "e", " ", "a", ".", "j", "s">>),
         PsLine(<<"8">>, <<"N", "O", "D", "E">>),
         PsLine(<<"9">>, <<"s", "h">>),
         <<"n", "o", "d", "e", " ", "7", "\n">> }

\* executeProcessMonitor: the promise executor
executeProcessMonitor(p, isWindows) ==
  [NewCall("proc") EXCEPT !.windows = isWindows]

\* child.stdout.on('data') of executeProcessMonitor
ProcOnStdout(c, data) ==
  [c EXCEPT !.stdout = @ \o data, !.outChunks = Append(@, data)]

\* child.on('close') of executeProcessMonitor; a pattern new RegExp rejects
\* makes parseProcessList, and so the handler, throw
ProcOnCloseIgnoresCode(c, p, code) ==
  IF p.processPattern # "" /\ ~RegexValid(p.processPattern)
  THEN [c EXCEPT !.closed = TRUE, !.closeCode = code, !.handlerThrew = TRUE]
  ELSE LET processes == parseProcessList(c.stdout, p.processPattern,
                                         c.windows)
       IN Resolve([c EXCEPT !.closed = TRUE, !.closeCode = code],
                  [processes |-> processes, pattern |-> p.processPattern,
                   count |-> Len(processes)], "close")

ProcOnClose(c, p, code) ==
  IF code # 0
  THEN Reject([c EXCEPT !.closed = TRUE, !.closeCode = code],
              NodeOperationError("Failed to get process list"), "close")
  ELSE IF p.processPattern # "" /\ ~RegexValid(p.processPattern)
  THEN [c EXCEPT !.closed = TRUE, !.closeCode = code, !.handlerThrew = TRUE]
  ELSE LET processes == parseProcessList(c.stdout, p.processPattern,
                                         c.windows)
       IN Resolve([c EXCEPT !.closed = TRUE, !.closeCode = code],
                  [processes |-> processes, pattern |-> p.processPattern,
                   count |-> Len(processes)], "close")

ProcOnError(c, msg) ==
  Reject([c EXCEPT !.errored = TRUE, !.spawnFailed = TRUE],
         NodeOperationError("Process monitor failed: " \o msg), "error")

\* executeSystemHealth / executePerformanceMetrics up to the await on the
\* disk check's child process
executeSystemHealth(p) == NewCall("health")

\* the rest of executeSystemHealth / executePerformanceMetrics once the disk
\* check resolved
HealthOnDisk(c, p, spawned, memory, cpu) ==
  IF p.operation = "systemHealth"
  THEN Resolve([c EXCEPT !.samples = <<memory, cpu>>],
               SystemHealth(checkDiskSpace(spawned),
                            checkMemoryUsage(memory), checkCpuUsage(cpu)),
               "return")
  ELSE Resolve([c EXCEPT !.samples = <<memory, cpu>>],
               [metrics |-> [cpu |-> checkCpuUsage(cpu),
                             memory |-> checkMemoryUsage(memory),
                             disk |-> checkDiskSpace(spawned)]],
               "return")

\* ------------------------------------------------------------ the host
\* parameter bags getNodeParameter serves, per adapter
NodeParams(a) ==
  CASE a = "Terminal" ->
         [executionMode : {"local", "remote"}, command : {"cmd"},
          timeout : Timeouts]
    [] a = "LLM" -> [operation : LLMOperations \cup {"bogus"}]
    [] a = "MCP" ->
         { q \in [connectionType : {"websocket", "http", "stdio"},
                  serverUrl : {"ws://localhost:8080", "http://localhost:8080"},
                  operation : MCPOperations \cup {"bogus"},
                  toolName : {"tool"}, toolArguments : JsonTexts,
                  resourceUri : {"file://r"}, customMessage : JsonTexts,
                  timeout : Timeouts] :
             /\ q.operation # "callTool" => q.toolArguments = "{}"
             /\ q.operation # "sendMessage" => q.customMessage = "{}"
             /\ q.connectionType = "websocket" =>
                  q.serverUrl = "ws://localhost:8080" }
    [] a = "Browser" ->
         [operation : BrowserOperations \cup {"bogus"},
          viewport : BOOLEAN, userAgent : BOOLEAN]
    [] OTHER ->
         { q \in [operation : MonitorOperations \cup {"bogus"},
                  services : ServicesTexts, processPattern : ProcessPatterns,
                  ports : {"1234,5678"}, networkRange : {"192.168.1.0/24"}] :
             /\ q.operation # "serviceStatus" => q.services = "{}"
             /\ q.operation # "processMonitor" => q.processPattern = "" }

\* { ...a, ...b }
Spread(a, b) ==
  [k \in DOMAIN a \cup DOMAIN b |-> IF k \in DOMAIN b THEN b[k] ELSE a[k]]

\* the default branch of the operation switch
UnknownOperation(p) ==
  Reject([NewCall("sync") EXCEPT !.external = FALSE],
         NodeOperationError("Unknown operation: " \o p.operation), "throw")

\* the body of the try block up to its await, per adapter
Dispatch(a, p, id, page, isWindows) ==
  CASE a = "Terminal" ->
         IF p.executionMode = "local"
         THEN executeLocalCommand(p) ELSE executeRemoteCommand(p)
    [] a = "LLM" ->
         IF p.operation \in LLMOperations
         THEN executeLLMOperation(p) ELSE UnknownOperation(p)
    [] a = "MCP" ->
         IF p.connectionType = "websocket"
         THEN executeWebSocketOperation(p) ELSE executeHttpOperation(p, id)
    [] a = "Browser" ->
         IF p.operation \in BrowserOperations
         THEN executePageOperation(p, page) ELSE UnknownOperation(p)
    [] OTHER ->
         CASE p.operation \in {"systemHealth", "performanceMetrics"} ->
                executeSystemHealth(p)
           [] p.operation = "serviceStatus" -> executeServiceStatus(p)
           [] p.operation = "networkScan" -> executeNetworkScan(p)
           [] p.operation = "processMonitor" ->
                executeProcessMonitor(p, isWindows)
           [] OTHER -> UnknownOperation(p)

\* the record pushed after a successful operation
SuccessRecord(a, p, result) ==
  [json |->
     CASE a = "Terminal" ->
            Spread([command |-> p.command,
                    executionMode |-> p.executionMode], result)
       [] a = "MCP" ->
            Spread([operation |-> p.operation,
                    connectionType |-> p.connectionType,
                    serverUrl |-> p.serverUrl], result)
       [] OTHER -> Spread([operation |-> p.operation], result)]

\* the record pushed by the catch block
ErrorRecord(err) == [json |-> [error |-> err.msg]]

\* -------------------------------------------------------------- execute()
NoBrowser ==
  [launches |-> 0,      \* puppeteer.launch calls
   browser |-> FALSE,    \* the browser handle is non-null
   pages |-> 0,          \* pages created
   page |-> 0,           \* the page handle (0 is null)
   closes |-> 0,         \* browser.close() calls
   used |-> {},          \* page handles the items' operations ran on
   failure |-> "none"]   \* the set-up or clean-up call that failed

Init ==
  /\ adapter \in Adapters
  /\ params \in NodeParams(adapter)
  /\ continueOnFail \in BOOLEAN
  /\ nItems \in 0..MaxItems
  /\ i = 0
  /\ pc = IF adapter = "Browser" THEN "launch" ELSE "loop"
  /\ returnData = << >>
  /\ thrown = NoError
  /\ call = IdleCall
  /\ now = 0
  /\ chunksLeft = MaxChunks
  /\ outcomes = << >>
  /\ started = {}
  /\ br = NoBrowser

\* where the setup of the Browser adapter goes after stage 'from'
AfterSetup(from, p) ==
  IF from = "newPage" /\ p.viewport THEN "viewport"
  ELSE IF from \in {"newPage", "viewport"} /\ p.userAgent THEN "userAgent"
  ELSE "loop"

\* browser = await puppeteer.launch(...)
BrowserLaunch ==
  /\ pc = "launch"
  /\ \E failure \in {""} \cup LaunchErrors :
       IF failure = ""
       THEN /\ br' = [br EXCEPT !.launches = @ + 1, !.browser = TRUE]
            /\ pc' = "newPage"
            /\ UNCHANGED thrown
       ELSE /\ br' = [br EXCEPT !.launches = @ + 1, !.failure = "launch"]
            /\ thrown' = LibraryError(failure)
            /\ pc' = "finally"
  /\ UNCHANGED <<adapter, continueOnFail, nItems, i, returnData, params, call,
                 now, chunksLeft, outcomes, started>>

\* page = await browser.newPage()
BrowserNewPage ==
  /\ pc = "newPage"
  /\ \E failure \in {""} \cup PageErrors :
       IF failure = ""
       THEN /\ br' = [br EXCEPT !.pages = @ + 1, !.page = br.pages + 1]
            /\ pc' = AfterSetup("newPage", params)
            /\ UNCHANGED thrown
       ELSE /\ thrown' = LibraryError(failure)
            /\ pc' = "finally"
            /\ br' = [br EXCEPT !.failure = "newPage"]
  /\ UNCHANGED <<adapter, continueOnFail, nItems, i, returnData, params, call,
                 now, chunksLeft, outcomes, started>>

\* await page.setViewport(...) / await page.setUserAgent(...)
BrowserSetupContinues ==
  /\ pc \in {"viewport", "userAgent"}
  /\ \E failure \in {""} \cup PageErrors :
       IF failure = ""
       THEN /\ pc' = AfterSetup(pc, params)
            /\ UNCHANGED <<thrown, br, returnData>>
       ELSE /\ br' = [br EXCEPT !.failure = pc]
            /\ pc' = "finally"
            /\ IF continueOnFail
               THEN /\ returnData' =
                         Append(returnData, ErrorRecord(LibraryError(failure)))
                    /\ UNCHANGED thrown
               ELSE /\ thrown' = LibraryError(failure)
                    /\ UNCHANGED returnData
  /\ UNCHANGED <<adapter, continueOnFail, nItems, i, params, call,
                 now, chunksLeft, outcomes, started>>

BrowserSetup ==
  /\ pc \in {"viewport", "userAgent"}
  /\ \E failure \in {""} \cup PageErrors :
       IF failure = ""
       THEN /\ pc' = AfterSetup(pc, params)
            /\ UNCHANGED <<thrown, br>>
       ELSE /\ thrown' = LibraryError(failure)
            /\ pc' = "finally"
            /\ br' = [br EXCEPT !.failure = pc]
  /\ UNCHANGED <<adapter, continueOnFail, nItems, i, returnData, params, call,
                 now, chunksLeft, outcomes, started>>

\* the finally block: if (browser) await browser.close(); an error thrown by
\* close() replaces the one in flight
BrowserFinallyLeaksOnError ==
  /\ pc = "finally"
  /\ pc' = IF thrown # NoError THEN "thrown" ELSE "returned"
  /\ br' = IF br.browser /\ thrown = NoError
           THEN [br EXCEPT !.closes = @ + 1] ELSE br
  /\ UNCHANGED <<adapter, continueOnFail, nItems, i, returnData, params, call,
                 now, chunksLeft, outcomes, started, thrown>>

BrowserFinally ==
  /\ pc = "finally"
  /\ IF br.browser
     THEN \E failure \in {""} \cup PageErrors :
            IF failure = ""
            THEN /\ br' = [br EXCEPT !.closes = @ + 1]
                 /\ pc' = IF thrown # NoError THEN "thrown" ELSE "returned"
                 /\ UNCHANGED thrown
            ELSE /\ br' = [br EXCEPT !.closes = @ + 1, !.failure = "close"]
                 /\ thrown' = LibraryError(failure)
                 /\ pc' = "thrown"
     ELSE /\ pc' = IF thrown # NoError THEN "thrown" ELSE "returned"
          /\ UNCHANGED <<br, thrown>>
  /\ UNCHANGED <<adapter, continueOnFail, nItems, i, returnData, params, call,
                 now, chunksLeft, outcomes, started>>

\* for (let i = 0; i < items.length; i++) { try { ... await operation
StartItem ==
  /\ pc = "loop"
  /\ i < nItems
  /\ \E id \in Ids, isWindows \in BOOLEAN :
       call' = Dispatch(adapter, params, id, br.page, isWindows)
  /\ now' = 0
  /\ pc' = "await"
  /\ started' = IF call'.external THEN started \cup {i} ELSE started
  /\ br' = IF call'.kind = "page" THEN [br EXCEPT !.used = @ \cup {call'.page}]
           ELSE br
  /\ UNCHANGED <<adapter, continueOnFail, nItems, i, returnData, thrown,
                 params, chunksLeft, outcomes>>

\* the loop condition fails: return [returnData] (through finally in the
\* Browser adapter)
LoopExit ==
  /\ pc = "loop"
  /\ i >= nItems
  /\ pc' = IF adapter = "Browser" THEN "finally" ELSE "returned"
  /\ UNCHANGED <<adapter, continueOnFail, nItems, i, returnData, thrown,
                 params, call, now, chunksLeft, outcomes, started, br>>

\* the await resumes with a value: returnData.push({ json: {...} })
ItemSucceededUnshifts ==
  /\ pc = "await"
  /\ call.state = "resolved"
  /\ returnData' = <<SuccessRecord(adapter, params, call.value)>> \o returnData
  /\ outcomes' = Append(outcomes, [state |-> call.state, value |-> call.value])
  /\ i' = i + 1
  /\ pc' = "loop"
  /\ UNCHANGED <<adapter, continueOnFail, nItems, thrown, params, call, now,
                 chunksLeft, started, br>>

ItemSucceeded ==
  /\ pc = "await"
  /\ call.state = "resolved"
  /\ returnData' = Append(returnData, SuccessRecord(adapter, params, call.value))
  /\ outcomes' = Append(outcomes, [state |-> call.state, value |-> call.value])
  /\ i' = i + 1
  /\ pc' = "loop"
  /\ UNCHANGED <<adapter, continueOnFail, nItems, thrown, params, call, now,
                 chunksLeft, started, br>>

\* the catch block of the loop body
ItemFailedAlwaysThrows ==
  /\ pc = "await"
  /\ call.state = "rejected"
  /\ outcomes' = Append(outcomes, [state |-> call.state, value |-> call.value])
  /\ thrown' = call.value
  /\ pc' = IF adapter = "Browser" THEN "finally" ELSE "thrown"
  /\ UNCHANGED <<adapter, continueOnFail, nItems, params, call, now,
                 chunksLeft, started, br, returnData, i>>

ItemFailedAlwaysContinues ==
  /\ pc = "await"
  /\ call.state = "rejected"
  /\ outcomes' = Append(outcomes, [state |-> call.state, value |-> call.value])
  /\ returnData' = Append(returnData, ErrorRecord(call.value))
  /\ i' = i + 1
  /\ pc' = "loop"
  /\ UNCHANGED <<adapter, continueOnFail, nItems, params, call, now,
                 chunksLeft, started, br, thrown>>

ItemFailed ==
  /\ pc = "await"
  /\ call.state = "rejected"
  /\ outcomes' = Append(outcomes, [state |-> call.state, value |-> call.value])
  /\ IF continueOnFail
     THEN /\ returnData' = Append(returnData, ErrorRecord(call.value))
          /\ i' = i + 1
          /\ pc' = "loop"
          /\ UNCHANGED thrown
     ELSE /\ thrown' = call.value
          /\ pc' = IF adapter = "Browser" THEN "finally" ELSE "thrown"
          /\ UNCHANGED <<returnData, i>>
  /\ UNCHANGED <<adapter, continueOnFail, nItems, params, call, now,
                 chunksLeft, started, br>>

\* ----------------------------------------- events of the external call
\* one second passes; an armed timer fires before time moves past its
\* deadline, and the clock is followed up to one second past the configured
\* timeout
Tick ==
  /\ pc = "await"
  /\ call.state = "pending"
  /\ "timeout" \in DOMAIN params
  /\ now < MaxClock /\ now <= params.timeout
  /\ ~(call.timer = "armed" /\ now >= call.timeout)
  /\ now' = now + 1
  /\ UNCHANGED <<execVars, call, chunksLeft>>

\* child.stdout 'data'
LocalStdoutData ==
  /\ pc = "await" /\ call.kind = "local"
  /\ ~call.closed /\ ~call.spawnFailed /\ chunksLeft > 0
  /\ \E data \in Chunks : call' = LocalOnStdout(call, data)
  /\ chunksLeft' = chunksLeft - 1
  /\ UNCHANGED <<execVars, now>>

\* child.stderr 'data'
LocalStderrData ==
  /\ pc = "await" /\ call.kind = "local"
  /\ ~call.closed /\ ~call.spawnFailed /\ chunksLeft > 0
  /\ \E data \in Chunks : call' = LocalOnStderr(call, data)
  /\ chunksLeft' = chunksLeft - 1
  /\ UNCHANGED <<execVars, now>>

\* child 'close': the exit code of the command, or the negative errno after
\* a failed spawn
LocalClose ==
  /\ pc = "await" /\ call.kind = "local"
  /\ ~call.closed
  /\ \E code \in (IF call.spawnFailed THEN {SpawnFailCode} ELSE ExitCodes) :
       call' = LocalOnClose(call, code)
  /\ UNCHANGED <<execVars, now, chunksLeft>>

\* child 'error': the process could not be spawned
LocalError ==
  /\ pc = "await" /\ call.kind = "local"
  /\ ~call.closed /\ ~call.errored
  /\ call.outChunks = << >> /\ call.errChunks = << >>
  /\ \E msg \in SpawnErrors : call' = LocalOnError(call, msg)
  /\ UNCHANGED <<execVars, now, chunksLeft>>

SSHTimerFires ==
  /\ pc = "await" /\ call.kind = "ssh"
  /\ call.timer = "armed" /\ now >= call.timeout
  /\ call' = SSHOnTimeout(call)
  /\ UNCHANGED <<execVars, now, chunksLeft>>

\* conn 'ready'
SSHReady ==
  /\ pc = "await" /\ call.kind = "ssh"
  /\ ~call.ready /\ ~call.errored
  /\ call' = SSHOnReady(call)
  /\ UNCHANGED <<execVars, now, chunksLeft>>

\* the callback of conn.exec is called with an error or with the stream
SSHExecCallback ==
  /\ pc = "await" /\ call.kind = "ssh"
  /\ call.execs > 0 /\ ~call.execDone /\ ~call.errored
  /\ \/ \E msg \in SSHExecErrors : call' = SSHOnExecError(call, msg)
     \/ call' = SSHOnExecStream(call)
  /\ UNCHANGED <<execVars, now, chunksLeft>>

SSHStreamData ==
  /\ pc = "await" /\ call.kind = "ssh"
  /\ call.streamOpen /\ chunksLeft > 0
  /\ \E data \in Chunks : call' = SSHOnStreamData(call, data)
  /\ chunksLeft' = chunksLeft - 1
  /\ UNCHANGED <<execVars, now>>

SSHStreamStderr ==
  /\ pc = "await" /\ call.kind = "ssh"
  /\ call.streamOpen /\ chunksLeft > 0
  /\ \E data \in Chunks : call' = SSHOnStreamStderr(call, data)
  /\ chunksLeft' = chunksLeft - 1
  /\ UNCHANGED <<execVars, now>>

SSHStreamClose ==
  /\ pc = "await" /\ call.kind = "ssh"
  /\ call.streamOpen
  /\ \E code \in ExitCodes : call' = SSHOnStreamClose(call, code)
  /\ UNCHANGED <<execVars, now, chunksLeft>>

\* conn 'error': connection refused, authentication failure, connection lost
SSHError ==
  /\ pc = "await" /\ call.kind = "ssh"
  /\ ~call.errored /\ ~call.closed
  /\ \E msg \in SSHErrors : call' = SSHOnError(call, msg)
  /\ UNCHANGED <<execVars, now, chunksLeft>>

WSTimerFires ==
  /\ pc = "await" /\ call.kind = "ws"
  /\ call.timer = "armed" /\ now >= call.timeout
  /\ call' = WSOnTimeout(call)
  /\ UNCHANGED <<execVars, now, chunksLeft>>

\* ws 'open': the handshake completed (never after close() was called)
WSOpen ==
  /\ pc = "await" /\ call.kind = "ws"
  /\ ~call.ready /\ ~call.errored /\ ~call.closed /\ call.ends = 0
  /\ \E id \in Ids : call' = WSOnOpen(call, params, id)
  /\ UNCHANGED <<execVars, now, chunksLeft>>

\* ws 'message': also while the closing handshake is under way
WSMessage ==
  /\ pc = "await" /\ call.kind = "ws"
  /\ call.ready /\ ~call.errored /\ ~call.closed
  /\ call.received < MaxMessages
  /\ \E data \in ResponseTexts : call' = WSOnMessage(call, data)
  /\ UNCHANGED <<execVars, now, chunksLeft>>

WSError ==
  /\ pc = "await" /\ call.kind = "ws"
  /\ ~call.errored /\ ~call.closed
  /\ \E msg \in WSErrors : call' = WSOnError(call, msg)
  /\ UNCHANGED <<execVars, now, chunksLeft>>

WSClose ==
  /\ pc = "await" /\ call.kind = "ws"
  /\ ~call.closed
  /\ call' = WSOnClose(call)
  /\ UNCHANGED <<execVars, now, chunksLeft>>

\* axios settles for the LM Studio agent
LLMReply ==
  /\ pc = "await" /\ call.kind = "llm" /\ call.state = "pending"
  /\ \E reply \in HttpReplies : call' = LLMOnReply(call, params, reply)
  /\ UNCHANGED <<execVars, now, chunksLeft>>

\* a call on the page awaited by the page operation settles
PageSettle ==
  /\ pc = "await" /\ call.kind = "page" /\ call.state = "pending"
  /\ call.step < PageAwaits(params.operation)
  /\ \E failure \in {""} \cup PageErrors :
       call' = PageOnSettle(call, params, failure)
  /\ UNCHANGED <<execVars, now, chunksLeft>>

\* axios.get of the service being probed settles
ServiceProbe ==
  /\ pc = "await" /\ call.kind = "services" /\ call.state = "pending"
  /\ \/ \E code \in StatusCodes : call' = ServiceOnProbe(call, params, code, "")
     \/ \E msg \in HttpErrors : call' = ServiceOnProbe(call, params, 0, msg)
  /\ UNCHANGED <<execVars, now, chunksLeft>>

\* axios.get of the port being scanned settles
ScanProbe ==
  /\ pc = "await" /\ call.kind = "scan" /\ call.state = "pending"
  /\ \E open \in BOOLEAN : call' = ScanOnProbe(call, params, open)
  /\ UNCHANGED <<execVars, now, chunksLeft>>

\* the listing process of the process monitor writes to stdout
ProcStdoutData ==
  /\ pc = "await" /\ call.kind = "proc"
  /\ ~call.closed /\ ~call.errored /\ chunksLeft > 0
  /\ \E data \in ListingChunks(call.windows) : call' = ProcOnStdout(call, data)
  /\ chunksLeft' = chunksLeft - 1
  /\ UNCHANGED <<execVars, now>>

\* the listing process of the process monitor closes
ProcClose ==
  /\ pc = "await" /\ call.kind = "proc"
  /\ ~call.closed
  /\ \E code \in (IF call.spawnFailed THEN {SpawnFailCode} ELSE ExitCodes) :
       call' = ProcOnClose(call, params, code)
  /\ UNCHANGED <<execVars, now, chunksLeft>>

ProcError ==
  /\ pc = "await" /\ call.kind = "proc"
  /\ ~call.closed /\ ~call.errored
  /\ call.outChunks = << >>
  /\ \E msg \in SpawnErrors : call' = ProcOnError(call, msg)
  /\ UNCHANGED <<execVars, now, chunksLeft>>

\* the disk check's process closes or fails to spawn; memory and CPU are
\* sampled
HealthDisk ==
  /\ pc = "await" /\ call.kind = "health" /\ call.state = "pending"
  /\ \E r \in HealthReadings :
       call' = HealthOnDisk(call, params, r[1], r[2], r[3])
  /\ UNCHANGED <<execVars, now, chunksLeft>>

Next ==
  \/ BrowserLaunch \/ BrowserNewPage \/ BrowserSetup \/ BrowserFinally
  \/ StartItem \/ LoopExit \/ ItemSucceeded \/ ItemFailed
  \/ Tick
  \/ LocalStdoutData \/ LocalStderrData \/ LocalClose \/ LocalError
  \/ SSHTimerFires \/ SSHReady \/ SSHExecCallback \/ SSHStreamData
  \/ SSHStreamStderr \/ SSHStreamClose \/ SSHError
  \/ WSTimerFires \/ WSOpen \/ WSMessage \/ WSError \/ WSClose
  \/ LLMReply \/ PageSettle \/ ServiceProbe \/ ScanProbe
  \/ ProcStdoutData \/ ProcClose \/ ProcError \/ HealthDisk

Spec == Init /\ [][Next]_vars

\* ------------------------------------------------------------ properties
\* execute has left the loop for good
Finished == pc \in {"returned", "thrown"}

\* the record execute pushes for a delivered outcome
RecordFor(o) ==
  IF o.state = "resolved" THEN SuccessRecord(adapter, params, o.value)
  ELSE ErrorRecord(o.value)

\* the concatenation of the chunks in arrival order
RECURSIVE Flatten(_)
Flatten(chunks) ==
  IF chunks = << >> THEN << >> ELSE Head(chunks) \o Flatten(Tail(chunks))

\* r is s without its leading and trailing whitespace
IsTrimOf(r, s) ==
  \E a \in 0..Len(s) : \E b \in a..Len(s) :
    /\ r = SubSeq(s, a + 1, b)
    /\ \A k \in 1..a : IsSpace(s[k])
    /\ \A k \in (b + 1)..Len(s) : IsSpace(s[k])
    /\ r # << >> => ~IsSpace(r[1]) /\ ~IsSpace(r[Len(r)])

\* C1 as stated: with continue-on-failure enabled execute never throws, in
\* any adapter, and returns one output entry per input item.
C1_NeverThrowsOnContinue ==
  continueOnFail =>
    /\ thrown = NoError
    /\ pc = "returned" => Len(returnData) = nItems

\* C1 amended: with continue-on-failure enabled, and unless the Browser
\* adapter's launch, page set-up or final browser.close() fails, execute does
\* not throw, every item after a failing item is still processed, and the
\* output has exactly one entry per input item.
C1_ContinueOnFail ==
  (continueOnFail /\ br.failure = "none") =>
    /\ thrown = NoError
    /\ pc # "thrown"
    /\ Len(returnData) = i
    /\ Len(outcomes) = i
    /\ pc = "returned" => /\ Len(returnData) = nItems
                          /\ i = nItems

\* C1 witness: a two-item batch returned with continue-on-failure, the first
\* item failed and the second was processed after it.
C1_Witness ==
  /\ continueOnFail /\ pc = "returned" /\ nItems = MaxItems
  /\ outcomes[1].state = "rejected"
  /\ outcomes[nItems].state = "resolved"
  /\ Len(returnData) = nItems

\* the item whose failure made execute leave the loop
FailedItem == Len(outcomes)

Aborted ==
  /\ ~continueOnFail
  /\ outcomes # << >>
  /\ outcomes[Len(outcomes)].state = "rejected"

\* C2 as stated: without continue-on-failure the first failing item aborts
\* the batch, execute throws exactly that item's error, returns nothing, and
\* no later item's operation is started.
C2_ThrowsItemError ==
  Aborted =>
    /\ pc \in {"finally", "thrown"}
    /\ pc = "thrown" => thrown = outcomes[FailedItem].value
    /\ \A k \in started : k < FailedItem

\* C2 amended: as stated, except that in the Browser adapter the error thrown
\* is the one of browser.close() when the clean-up fails too.
C2_AbortOnFirstFailure ==
  Aborted =>
    /\ pc \in {"finally", "thrown"}
    /\ pc # "returned"
    /\ i = FailedItem - 1
    /\ Len(returnData) = FailedItem - 1
    /\ \A k \in 1..(FailedItem - 1) : outcomes[k].state = "resolved"
    /\ pc = "thrown" =>
         \/ thrown = outcomes[FailedItem].value
         \/ adapter = "Browser" /\ br.failure = "close"
    /\ \A k \in started : k < FailedItem
    /\ call.state = "rejected"

\* C2 witness: the second of two items failed, execute threw its error and
\* the first item's record was not returned.
C2_Witness ==
  /\ ~continueOnFail /\ pc = "thrown" /\ nItems = MaxItems
  /\ Len(outcomes) = 2
  /\ outcomes[1].state = "resolved"
  /\ thrown = outcomes[2].value
  /\ thrown # NoError

\* C3: a remote command never stays pending beyond its timeout, and a call
\* settled by the timer carries the SSH timeout error.
C3_SSHSettlesWithinTimeout ==
  call.kind = "ssh" =>
    /\ call.state = "pending" => now <= call.timeout
    /\ call.settledBy = "timeout" => call.value = SSHTimeoutError(call.timeout)

\* C4: a WebSocket call is pending only while its timer is armed, so never
\* past the timeout; once the timer has fired the call is rejected with the
\* WebSocket timeout error and the socket has been closed.
C4_WSHardTimeout ==
  call.kind = "ws" =>
    /\ call.state = "pending" => (call.timer = "armed" /\ now <= call.timeout)
    /\ call.timer = "fired" =>
         /\ call.state = "rejected"
         /\ call.value = WSTimeoutError(call.timeout)
         /\ call.settledBy = "timeout"
         /\ call.ends >= 1
         /\ now = call.timeout

\* C4 witness: the socket opened, the request was sent, nothing arrived and
\* the timer fired.
C4_Witness ==
  /\ call.kind = "ws" /\ call.timer = "fired"
  /\ call.ready /\ Len(call.sent) = 1
  /\ call.received = 0 /\ ~call.errored /\ ~call.closed
  /\ call.state = "rejected"

\* a WebSocket call whose connection closed before the timeout with no
\* message received
WSClosedWithoutMessage ==
  /\ call.kind = "ws" /\ call.closed
  /\ call.received = 0 /\ call.timer # "fired"

\* C5 as stated: such a call is rejected with 'WebSocket connection closed
\* unexpectedly', whatever events led to the close.
C5_AlwaysUnexpectedClose ==
  WSClosedWithoutMessage =>
    (call.state = "rejected" /\ call.value = WSClosedError)

\* C5 amended: such a call is rejected, never resolved and never pending;
\* the error is 'WebSocket connection closed unexpectedly' unless an 'error'
\* event or a failure to build the request rejected the call before the close.
C5_UnexpectedClose ==
  WSClosedWithoutMessage =>
    /\ call.state = "rejected"
    /\ call.timer # "armed"
    /\ (~call.errored /\ call.settledBy # "sendFailure") =>
         (call.value = WSClosedError /\ call.settledBy = "close")
    /\ call.value # WSClosedError =>
         call.settledBy \in {"error", "sendFailure"}

\* C5 witness: the socket opened, the request was sent and the connection
\* closed with no message and no error.
C5_Witness ==
  /\ WSClosedWithoutMessage
  /\ call.ready /\ Len(call.sent) = 1 /\ ~call.errored
  /\ call.value = WSClosedError

\* C6: when a spawned local command closes with code c, the call is resolved
\* with exitCode c, the trimmed concatenation of the stdout chunks, the
\* trimmed concatenation of the stderr chunks, and success = (c = 0).
C6_LocalCommandRecord ==
  (call.kind = "local" /\ call.closed /\ ~call.spawnFailed) =>
    /\ call.state = "resolved"
    /\ call.value.exitCode = call.closeCode
    /\ IsTrimOf(call.value.stdout, Flatten(call.outChunks))
    /\ IsTrimOf(call.value.stderr, Flatten(call.errChunks))
    /\ call.value.success = (call.closeCode = 0)

\* C6 witness: two stdout chunks with leading and trailing whitespace, exit
\* code 1.
C6_Witness ==
  /\ call.kind = "local" /\ call.closed /\ call.closeCode = 1
  /\ call.outChunks = << <<" ">>, <<"x", " ", "y", "\n">> >>
  /\ call.state = "resolved"
  /\ call.value.stdout = <<"x", " ", "y">>

\* messages of the failures the Terminal adapter reports
TerminalFailures ==
  {"Command execution failed: " \o m : m \in SpawnErrors}
    \cup {"SSH connection failed: " \o m : m \in SSHErrors}
    \cup {"SSH exec failed: " \o m : m \in SSHExecErrors}
    \cup {SSHTimeoutError(t).msg : t \in Timeouts}

\* C7: in the Terminal adapter the exit code never makes an error: a command
\* that closes with a non-zero code, with no spawn, connection or exec
\* failure and no timeout before it, yields a normal record with
\* success = false and that code, whatever continueOnFail() says; errors come
\* only from failed spawns, connection failures (timeout included) and exec
\* failures.
C7_NonZeroExitIsNoError ==
  adapter = "Terminal" =>
    /\ (call.closed /\ call.closeCode # 0 /\ ~call.errored
          /\ call.timer # "fired") =>
         /\ call.state = "resolved"
         /\ call.value.exitCode = call.closeCode
         /\ call.value.success = FALSE
    /\ call.state = "rejected" =>
         /\ call.settledBy \in {"error", "timeout", "execError"}
         /\ call.value.msg \in TerminalFailures
    /\ thrown # NoError => thrown.msg \in TerminalFailures
    /\ \A k \in 1..Len(returnData) :
         IF outcomes[k].state = "resolved"
         THEN /\ returnData[k].json.exitCode = outcomes[k].value.exitCode
              /\ returnData[k].json.success = (returnData[k].json.exitCode = 0)
              /\ "error" \notin DOMAIN returnData[k].json
         ELSE returnData[k].json.error \in TerminalFailures

\* C7 witness: without continue-on-failure a remote command exited with
\* code 1 and execute returned its record.
C7_Witness ==
  /\ adapter = "Terminal" /\ ~continueOnFail /\ pc = "returned"
  /\ params.executionMode = "remote"
  /\ nItems = 1
  /\ returnData[1].json.exitCode = 1
  /\ returnData[1].json.success = FALSE

\* C8: one invocation of the Browser adapter launches at most once and
\* creates at most one page, exactly one once set-up has passed page
\* creation; every item's operation runs on that page; browser.close() is
\* never called before the end and exactly once by the time execute returns
\* or throws after a successful launch.
C8_OneBrowserOnePage ==
  adapter = "Browser" =>
    /\ br.launches <= 1
    /\ br.pages <= 1
    /\ pc \in {"viewport", "userAgent", "loop", "await", "returned"}
         => (br.pages = 1 /\ br.page = 1)
    /\ br.used \subseteq {br.page}
    /\ started # {} => br.used = {1}
    /\ br.closes <= 1
    /\ ~Finished => br.closes = 0
    /\ Finished => br.closes = (IF br.browser THEN 1 ELSE 0)

\* C8 witness: two items, the first failed and the second ran under
\* continue-on-failure on the same page, and the browser was closed once.
C8_Witness ==
  /\ adapter = "Browser" /\ continueOnFail /\ pc = "returned"
  /\ nItems = MaxItems
  /\ outcomes[1].state = "rejected"
  /\ outcomes[nItems].state = "resolved"
  /\ br.closes = 1 /\ br.used = {1}

\* C9: every failure delivered to the catch block of execute is a
\* NodeOperationError built by the adapter.
C9_OnlyOperationErrors ==
  call.state = "rejected" => call.value.cls = "NodeOperationError"

\* C10: items are processed one after the other in input order: an item's
\* operation is started only when every earlier item's outcome has been
\* delivered, a call is pending only while execute awaits it, and the k-th
\* output entry is the record of the k-th item's outcome.
C10_Sequential ==
  /\ Len(returnData) = i
  /\ Len(outcomes) \in {i, i + 1}
  /\ \A k \in started : k <= i /\ k <= Len(outcomes)
  /\ call.state = "pending" => (pc = "await" /\ Len(outcomes) = i)
  /\ pc = "loop" => call.state # "pending"
  /\ (pc = "await" /\ call.external) => i \in started
  /\ \A k \in 1..Len(returnData) : returnData[k] = RecordFor(outcomes[k])

\* C10 witness: a returned two-item batch whose first item succeeded and
\* whose second failed, the entries in that order.
C10_Witness ==
  /\ pc = "returned" /\ nItems = MaxItems
  /\ outcomes[1].state = "resolved"
  /\ outcomes[nItems].state = "rejected"
  /\ "error" \notin DOMAIN returnData[1].json
  /\ "error" \in DOMAIN returnData[nItems].json

\* C11: a WebSocket call writes at most one message to the socket, the one
\* built by the 'open' handler; the first message received settles the call,
\* resolved with its parsed content whatever id it carries (rejected only
\* when it is not JSON); the socket is closed on that message and nothing is
\* sent after it.
C11_SendOneAwaitOneClose ==
  call.kind = "ws" =>
    /\ Len(call.sent) <= 1
    /\ call.sent # << >> =>
         /\ call.ready
         /\ \E id \in Ids : /\ buildMCPMessage(params, id).ok
                             /\ call.sent[1] = buildMCPMessage(params, id).msg
    /\ call.firstMessage # "" <=> call.received >= 1
    /\ call.received >= 1 =>
         /\ call.state # "pending"
         /\ call.ends >= 1
         /\ call.timer # "armed"
    /\ call.state = "resolved" =>
         /\ call.settledBy = "message"
         /\ call.received >= 1
    /\ call.settledBy \in {"message", "parseFailure"} =>
         IF JSONParse(call.firstMessage).ok
         THEN /\ call.state = "resolved"
              /\ call.value = [success |-> TRUE,
                               response |-> JSONParse(call.firstMessage).value]
         ELSE /\ call.state = "rejected"
              /\ call.settledBy = "parseFailure"

\* C11 witness: the request carried id1, the first message received carried
\* id2, and the call resolved with that message and closed the socket.
C11_Witness ==
  /\ call.kind = "ws" /\ params.operation = "listTools"
  /\ Len(call.sent) = 1 /\ SentId(call) = "id1"
  /\ call.state = "resolved"
  /\ call.value.response.id = "id2"
  /\ call.ends >= 1

\* the method the envelope carries for an operation
EnvelopeMethod(op) ==
  CASE op = "initialize" -> "initialize"
    [] op = "listTools" -> "tools/list"
    [] op = "callTool" -> "tools/call"
    [] op = "listResources" -> "resources/list"
    [] op = "readResource" -> "resources/read"
    [] OTHER -> ""

\* m has the JSON-RPC-2.0-shaped envelope
HasEnvelope(m) ==
  /\ {"jsonrpc", "id", "method", "params"} \subseteq DOMAIN m
  /\ m.jsonrpc = "2.0"

\* the messages buildMCPMessage returned to the 'open' handler of the call
BuiltMessages == {call.sent[k] : k \in 1..Len(call.sent)}

\* C12 as stated: every message built, for each of the six operations, has
\* the envelope (jsonrpc = '2.0', id, method, params), the method being the
\* one of the operation for the five operations that fix it.
C12_EveryMessageHasEnvelope ==
  \A m \in BuiltMessages :
    /\ HasEnvelope(m)
    /\ params.operation # "sendMessage" =>
         m.method = EnvelopeMethod(params.operation)

\* C12 amended: for initialize, listTools, callTool, listResources and
\* readResource every message built has the envelope with the operation's
\* method and the generated id; for sendMessage the message is the parsed
\* customMessage parameter as it is, envelope or not.
C12_EnvelopeUnlessCustom ==
  \A m \in BuiltMessages :
    IF params.operation = "sendMessage"
    THEN m = JSONParse(params.customMessage).value
    ELSE /\ HasEnvelope(m)
         /\ m.id \in Ids
         /\ m.method = EnvelopeMethod(params.operation)
         /\ params.operation \in MCPOperations

\* C12 witness: the 'open' handler sent the tools/call envelope built from
\* the toolName and toolArguments parameters.
C12_Witness ==
  /\ call.kind = "ws" /\ params.operation = "callTool"
  /\ Len(call.sent) = 1
  /\ HasEnvelope(call.sent[1])
  /\ call.sent[1].method = "tools/call"
  /\ call.sent[1].params = [name |-> "tool", arguments |-> EmptyObject]

\* C13: a local command is never pending beyond the configured timeout: by
\* then the item has ended with an error or the process was terminated.
C13_LocalTimeoutBounds ==
  (call.kind = "local" /\ call.state = "pending") =>
    now <= params.timeout

\* the memory and CPU records of a resolved health or metrics call
MemoryCheck ==
  IF params.operation = "systemHealth" THEN call.value.checks.memory
  ELSE call.value.metrics.memory

CpuCheck ==
  IF params.operation = "systemHealth" THEN call.value.checks.cpu
  ELSE call.value.metrics.cpu

\* the class the cutoffs 70 and 90 give a usage of tenths / 10 percent
ExpectedClass(tenths) ==
  IF tenths <= 700 THEN "ok" ELSE IF tenths <= 900 THEN "warning" ELSE "critical"

\* C14: the memory check and the CPU check classify a usage u as 'ok' when
\* u <= 70, 'warning' when 70 < u <= 90 and 'critical' when u > 90; 70 is ok,
\* 70.1 warning, 90 warning, 90.1 critical.
C14_UsageClassification ==
  (call.kind = "health" /\ call.state = "resolved") =>
    /\ call.samples \in UsageSamples \X UsageSamples
    /\ MemoryCheck.status = ExpectedClass(call.samples[1])
    /\ CpuCheck.status = ExpectedClass(call.samples[2])

\* C14 witness: memory usage 70.1 was classified 'warning' and CPU usage 90
\* 'warning' too.
C14_Witness ==
  /\ call.kind = "health" /\ call.state = "resolved"
  /\ call.samples = <<701, 900>>
  /\ MemoryCheck.status = "warning"
  /\ CpuCheck.status = "warning"

\* name matches the pattern as a case-insensitive regular expression
NameMatches(name, pattern) ==
  LET chars == PatternChars(pattern)
      anchored == chars # << >> /\ chars[1] = "^"
      lit == IF anchored THEN Tail(chars) ELSE chars
  IN \E k \in 0..Len(name) :
       /\ anchored => k = 0
       /\ k + Len(lit) <= Len(name)
       /\ \A j \in 1..Len(lit) : Lower(name[k + j]) = Lower(lit[j])

\* C15: for every listing output, every non-empty pattern and both platform
\* formats, every entry the process monitor returns has a name that matches
\* the pattern, tested without case.
C15_OnlyMatchingProcesses ==
  (call.kind = "proc" /\ call.state = "resolved"
     /\ params.processPattern # "") =>
    /\ call.value.count = Len(call.value.processes)
    /\ \A k \in 1..Len(call.value.processes) :
         /\ call.value.processes[k].name # << >>
         /\ NameMatches(call.value.processes[k].name, params.processPattern)

\* C15 witness: of the ps lines for 'sh' and 'NODE', the pattern 'node'
\* kept only the second.
C15_Witness ==
  /\ call.kind = "proc" /\ call.state = "resolved" /\ ~call.windows
  /\ params.processPattern = "node"
  /\ call.outChunks = << PsLine(<<"9">>, <<"s", "h">>),
                         PsLine(<<"8">>, <<"N", "O", "D", "E">>) >>
  /\ call.value.processes = << [name |-> <<"N", "O", "D", "E">>,
                                pid |-> <<"8">>] >>

\* C16: a service is reported 'healthy' only if a request was made to its
\* URL and was answered, for WebSocket URLs as for HTTP URLs.
C16_HealthyOnlyIfReached ==
  call.kind = "services" =>
    \A k \in 1..Len(call.acc) :
      call.acc[k].result.status = "healthy" =>
        call.acc[k].result.url \in call.probed

\* the kind of outcome a raced call has delivered
OutcomeKind(c) ==
  IF c.state = "pending" THEN "none"
  ELSE IF c.state = "resolved" THEN "result"
  ELSE IF c.settledBy = "timeout" THEN "timeout"
  ELSE "failure"

\* C17: the SSH path and the WebSocket path race the call against the timer
\* in the same way: as long as neither a result nor a failure has been
\* delivered the timer is armed, connected or not, so that the call is never
\* pending past the deadline, and a timer that fires on a pending call makes
\* the outcome a timeout error.
C17_SameRaceInBothPaths ==
  call.kind \in {"ssh", "ws"} =>
    /\ OutcomeKind(call) = "none" =>
         (call.timer = "armed" /\ now <= call.timeout)
    /\ (call.timer = "fired" /\ ~call.lateTimer) =>
         OutcomeKind(call) = "timeout"

\* the listing process of the process monitor was spawned and closed with a
\* non-zero code
ListingExitedNonZero ==
  /\ call.kind = "proc" /\ call.closed
  /\ call.closeCode # 0 /\ ~call.spawnFailed

\* C18 as stated: a non-zero exit code of the listing command is no error;
\* the operation still yields a record built from the captured output.
C18_NonZeroExitYieldsRecord ==
  ListingExitedNonZero =>
    /\ call.state = "resolved"
    /\ call.value.pattern = params.processPattern

\* C18 amended: a non-zero exit code of the listing command is an error: the
\* call is rejected with 'Failed to get process list' and the captured
\* output is dropped; a failed spawn is rejected with 'Process monitor
\* failed: ...'; a record, built from the captured output, is yielded only
\* for exit code 0.
C18_NonZeroExitRejects ==
  call.kind = "proc" =>
    /\ ListingExitedNonZero =>
         /\ call.state = "rejected"
         /\ call.settledBy = "close"
         /\ call.value = NodeOperationError("Failed to get process list")
    /\ call.spawnFailed =>
         /\ call.state = "rejected"
         /\ call.settledBy = "error"
         /\ call.value.msg \in {"Process monitor failed: " \o m :
                                  m \in SpawnErrors}
    /\ call.state = "rejected" => (ListingExitedNonZero \/ call.spawnFailed)
    /\ call.state = "resolved" =>
         /\ call.closed /\ call.closeCode = 0
         /\ call.value.processes =
              parseProcessList(Flatten(call.outChunks), params.processPattern,
                               call.windows)

\* C18 witness: the listing command wrote a line and exited with code 1, and
\* the call was rejected with 'Failed to get process list'.
C18_Witness ==
  /\ ListingExitedNonZero /\ call.closeCode = 1
  /\ Len(call.outChunks) = 1
  /\ call.state = "rejected"
  /\ call.value.msg = "Failed to get process list"

\* C19: a system-health result is 'healthy' with overall = true only if none
\* of the disk, memory and CPU checks embedded in it is 'critical'.
C19_HealthyMeansNoCritical ==
  (call.kind = "health" /\ call.state = "resolved"
     /\ params.operation = "systemHealth"
     /\ call.value.status = "healthy" /\ call.value.overall) =>
    /\ call.value.checks.diskSpace.status # "critical"
    /\ call.value.checks.memory.status # "critical"
    /\ call.value.checks.cpu.status # "critical"

\* the record the HTTP transport returns
HttpPlaceholder ==
  [success |-> TRUE,
   response |-> [message |-> "HTTP MCP not fully implemented yet"]]

\* C20: with a connection type other than 'websocket' the connector starts
\* no external operation: no connection, no timer, nothing sent, no event
\* awaited; the call is settled when it returns, resolved with the
\* placeholder record whenever the message can be built, whatever serverUrl
\* and timeout are, and every record returned for such an item carries that
\* placeholder.
C20_HttpIsStub ==
  (adapter = "MCP" /\ params.connectionType # "websocket") =>
    /\ started = {}
    /\ call.kind \in {"none", "mcpHttp"}
    /\ ~call.external
    /\ call.sent = << >> /\ ~call.ready /\ call.received = 0
    /\ call.timer = "none" /\ call.ends = 0
    /\ now = 0
    /\ call.kind = "mcpHttp" =>
         /\ call.state # "pending"
         /\ call.state = "resolved" <=> \E id \in Ids : buildMCPMessage(params, id).ok
         /\ call.state = "resolved" => call.value = HttpPlaceholder
    /\ \A k \in 1..Len(returnData) :
         outcomes[k].state = "resolved" =>
           /\ returnData[k].json.success = TRUE
           /\ returnData[k].json.response = HttpPlaceholder.response
           /\ returnData[k].json.serverUrl = params.serverUrl

\* C20 witness: an 'http' tools/call item with timeout MaxTimeout returned
\* the placeholder record without anything having been started.
C20_Witness ==
  /\ adapter = "MCP" /\ params.connectionType = "http"
  /\ params.operation = "callTool" /\ params.timeout = MaxTimeout
  /\ params.serverUrl = "http://localhost:8080"
  /\ pc = "returned" /\ nItems = 1
  /\ outcomes[1].state = "resolved"
  /\ returnData[1].json.response = HttpPlaceholder.response
  /\ started = {}

\* C21: once executeRemoteCommand has rejected with the SSH timeout error,
\* conn.exec is not called: no 'ready' event delivered after the timer fired
\* starts the command on the remote host.
C21_NoExecAfterTimeout ==
  (call.kind = "ssh" /\ call.settledBy = "timeout") =>
    /\ ~call.execAfterTimeout
    /\ call.execs = 0

\* the promise-wrapped calls whose events race
RacingKinds == {"local", "ssh", "ws"}

\* C22: a local, SSH or WebSocket call settles at most once and its outcome is
\* fixed by the first settling event: whatever event is delivered after the
\* promise settled, the outcome execute receives stays the one of the first
\* settlement and the item adds at most one record to the output collection.
C22_SettlesOnce ==
  [][(call.kind \in RacingKinds /\ pc = "await" /\ call.state # "pending") =>
       /\ pc' = "await" =>
            /\ call'.state = call.state
            /\ call'.value = call.value
            /\ call'.settledBy = call.settledBy
            /\ returnData' = returnData
            /\ outcomes' = outcomes
       /\ pc' # "await" =>
            /\ outcomes' = Append(outcomes, [state |-> call.state,
                                             value |-> call.value])
            /\ Len(returnData') <= Len(returnData) + 1
            /\ call' = call]_vars

\* C22 witness: a local command whose spawn failed was rejected by 'error';
\* the 'close' event that followed called resolve() on the settled promise.
C22_Witness ==
  /\ call.kind = "local" /\ call.state = "rejected"
  /\ call.settledBy = "error" /\ call.closed
  /\ call.settleCalls = 2

\* the calls of the Browser adapter that precede the item loop
SetupStages == {"launch", "newPage", "viewport", "userAgent"}

\* C23: in the Browser adapter a failure of the launch, of the page creation
\* or of the viewport / user-agent set-up propagates out of execute whatever
\* continueOnFail() says: no item is started and no record is produced; the
\* records of the output collection are those of the items' outcomes only.
C23_SetupFailurePropagates ==
  adapter = "Browser" =>
    /\ br.failure \in SetupStages =>
         /\ thrown # NoError
         /\ pc \in {"finally", "thrown"}
         /\ returnData = << >>
         /\ outcomes = << >>
         /\ started = {}
    /\ Len(returnData) <= Len(outcomes)
    /\ \A k \in 1..Len(returnData) : returnData[k] = RecordFor(outcomes[k])

\* C23 witness: with continue-on-failure enabled and two input items the
\* viewport set-up failed and execute threw without any record.
C23_Witness ==
  /\ adapter = "Browser" /\ continueOnFail /\ nItems = MaxItems
  /\ br.failure = "viewport"
  /\ pc = "thrown" /\ thrown # NoError
  /\ returnData = << >>

\* C24: whenever executeRemoteCommand has settled, conn.end() has been called,
\* on every settling path: timeout, exec failure, stream close and the
\* connection's 'error' event.
C24_SettledMeansEnded ==
  (call.kind = "ssh" /\ call.state # "pending") => call.ends >= 1

\* C25: once the listing process has closed or failed to spawn, the process
\* monitor has settled, whatever the processPattern parameter holds: resolved
\* with {processes, pattern, count} where count is the number of processes, or
\* rejected with an operation error; it is not pending.
C25_ProcessMonitorSettles ==
  (call.kind = "proc" /\ (call.closed \/ call.errored)) =>
    /\ call.state # "pending"
    /\ call.state = "resolved" =>
         /\ call.value.pattern = params.processPattern
         /\ call.value.count = Len(call.value.processes)
    /\ call.state = "rejected" => call.value.cls = "NodeOperationError"

\* C26: in a checkMemoryUsage result the reported usage (the rounded
\* percentage) and the reported status agree: the cutoffs 70 and 90 applied
\* to the reported usage give the reported status.
C26_ReportedUsageAgreesWithStatus ==
  (call.kind = "health" /\ call.state = "resolved") =>
    MemoryCheck.status = ExpectedClass(MemoryCheck.usage * 10)

\* the entries of the result are those of the services object, in order, one
\* per service name, each with the URL of its service
OneEntryPerService(acc, entries) ==
  /\ Len(acc) = Len(entries)
  /\ \A k \in 1..Len(acc) :
       /\ acc[k].name = entries[k][1]
       /\ acc[k].result.url = entries[k][2]
       /\ acc[k].result.status \in {"healthy", "unhealthy", "error"}
       /\ acc[k].result.status = "error" =>
            acc[k].result.error \in HttpErrors

\* C27 as stated: each service gets exactly one entry, a failing probe gives
\* its service the status 'error' and the others are still probed, and the
\* operation fails only when the 'services' parameter is not valid JSON.
C27_FailsOnlyOnInvalidJson ==
  call.kind = "services" =>
    /\ call.state = "rejected" => ~JSONParse(params.services).ok
    /\ call.state = "resolved" =>
         OneEntryPerService(call.value.services,
                            ServiceEntries(params.services))

\* C27 amended: as above, except that the operation also fails, with the
\* TypeError of Object.entries, when the parameter is the valid JSON text
\* null; for every other valid text it resolves.
C27_ProbeFailureIsolated ==
  call.kind = "services" =>
    /\ call.state = "rejected" <=>
         (~JSONParse(params.services).ok \/ params.services = "null")
    /\ call.state = "rejected" =>
         call.value = IF params.services = "null"
                      THEN TypeError("Cannot convert undefined or null to object")
                      ELSE JSONParse(params.services).error
    /\ call.state = "resolved" =>
         OneEntryPerService(call.value.services,
                            ServiceEntries(params.services))
    /\ call.state = "pending" =>
         /\ call.step < Len(ServiceEntries(params.services))
         /\ Len(call.acc) = call.step

\* C27 witness: the request to the first service failed, the second service
\* was probed after it and answered, and the operation resolved with both.
C27_Witness ==
  /\ call.kind = "services" /\ call.state = "resolved"
  /\ Len(call.value.services) = 2
  /\ call.value.services[1].result.status = "error"
  /\ call.value.services[2].result.status = "unhealthy"
  /\ call.value.services[2].result.url = "http://localhost:3000"
  /\ "http://localhost:3000" \in call.probed

\* C28: no timer outlives its call: whenever executeRemoteCommand or
\* executeWebSocketOperation has settled, its timeout timer has fired or has
\* been cleared, whatever event settled the call, and the timer callback has
\* not run after a settlement by another event.
C28_NoTimerOutlivesCall ==
  (call.kind \in {"ssh", "ws"} /\ call.state # "pending") =>
    /\ call.timer \in {"fired", "cleared"}
    /\ call.timer = "fired" <=> call.settledBy = "timeout"
    /\ ~call.lateTimer

\* C28 witness: the SSH command's exec request failed after the deadline of
\* the timer had passed; the timer had been cleared and did not run.
C28_Witness ==
  /\ call.kind = "ssh" /\ call.state = "rejected"
  /\ call.settledBy = "execError"
  /\ now > call.timeout
  /\ call.timer = "cleared" /\ ~call.lateTimer

====
